---- MODULE Spec2Model ----
(***************************************************************************)
(* Keyframe selection and the /stream WebSocket session of aesthetica.     *)
(*                                                                         *)
(*   services/ml/ml_core/video_stream_pipeline.py   KeyframeSelector,      *)
(*                                                  VideoStreamPipeline    *)
(*   services/api/app/api/v1/endpoints/stream.py    video_stream           *)
(*                                                                         *)
(* Units.  Time is counted in half seconds (1.0 s = 2), thresholds in      *)
(* hundredths (0.85 = 85), pixel values are the 8-bit values 0..255.       *)
(* Frames are uniformly coloured images, written as their <<b, g, r>>      *)
(* pixel; for such frames the thumbnail is uniform and the blur-based      *)
(* statistics of _compute_ssim have a closed form (see compute_ssim).      *)
(***************************************************************************)
EXTENDS Integers, Sequences, FiniteSets, TLC

VARIABLES
    pc,               \* position of the video_stream coroutine
    client_state,     \* ws.client_state
    processing,       \* the `processing` flag read by both background loops
    raised,           \* exception that left the message loop ("none" if none)
    message,          \* last message returned by ws.receive()
    selector,         \* the KeyframeSelector: thresholds and reference
    stream,           \* the VideoStreamPipeline: _seq, stats, _buffer, ...
    meta,             \* FrameMeta of the ingest_jpeg call in progress / returned
    worker,           \* the executor call of stream.process_next
    inflight,         \* number of CapturePipeline.run calls executing
    process_task,     \* state of the _process_loop task
    send_task,        \* state of the _send_results task
    result_queue,     \* asyncio.Queue of result payloads
    sent,             \* messages sent to the client: acks, results, the rest
    clock,            \* time.time()
    last_stats_time,  \* last_stats_time of video_stream
    hist,             \* counters of what happened so far (history)
    sel_calls,        \* calls of KeyframeSelector.check made so far (SpecSel)
    last_check,       \* the latest direct call of check, with the selector
                      \* before and after it (SpecChk)
    query_token,      \* the `token` query parameter of the handshake (<<>> if none)
    ingest_th,        \* the thread inside ingest_jpeg, statement by statement
    process_th        \* the thread inside process_next (both SpecRace)

vars == <<pc, client_state, processing, raised, message, selector, stream, meta,
          worker, inflight, process_task, send_task, result_queue, sent, clock,
          last_stats_time, hist, sel_calls, last_check, query_token,
          ingest_th, process_th>>

(***************************************************************************)
(* Program constants                                                       *)
(***************************************************************************)
DefaultSsimThreshold == 85
DefaultPixelDiffThreshold == 6
DefaultMinInterval == 2
DefaultMaxInterval == 20
STATS_INTERVAL == 10
ProcessingWindow == 50
AuthCloseCode == 4001

(***************************************************************************)
(* Bounds of the model                                                     *)
(***************************************************************************)
\* max_buffer of the session's VideoStreamPipeline (the default is 8)
MaxBuffer == 2
\* binary messages and text messages read in one session
MaxFrames == 3
MaxTexts == 1
\* times the clock advances, by STATS_INTERVAL each time
MaxTicks == 2
\* time.time() when the handler starts
WallEpoch == 1000

NoGray == -1
NoImage == <<>>
NoneArg == <<>>

Abs(x) == IF x < 0 THEN -x ELSE x

(***************************************************************************)
(* Inputs                                                                  *)
(***************************************************************************)
Dark == <<40, 40, 40>>
Light == <<215, 215, 215>>
Mid == <<100, 100, 100>>
MidPlus == <<120, 120, 120>>
Dim == <<91, 91, 91>>
Frames == {Dark, Mid}
SelFrames == {Dark, Light, Mid, MidPlus}

Inverted(frame) == <<255 - frame[1], 255 - frame[2], 255 - frame[3]>>

\* JPEG payloads: what cv2.imdecode makes of them, and their length
Jpeg(frame) == [size |-> 9, pixels |-> frame]
Garbage == [size |-> 3, pixels |-> NoImage]
EmptyBytes == [size |-> 0, pixels |-> NoImage]
JpegInputs == {Garbage, EmptyBytes} \cup {Jpeg(f) : f \in Frames}

imdecode(jpeg_bytes) == jpeg_bytes.pixels

(***************************************************************************)
(* KeyframeSelector                                                        *)
(***************************************************************************)
NewSelector ==
    [ssim_threshold |-> DefaultSsimThreshold,
     pixel_diff_threshold |-> DefaultPixelDiffThreshold,
     min_interval_s |-> DefaultMinInterval,
     max_interval_s |-> DefaultMaxInterval,
     last_gray |-> NoGray,
     last_keyframe_time |-> 0]

\* cv2.cvtColor(BGR2GRAY) of one pixel, then INTER_AREA resize of a uniform image
to_gray_thumb(frame_bgr) ==
    (frame_bgr[3] * 4899 + frame_bgr[2] * 9617 + frame_bgr[1] * 1868 + 8192) \div 16384

\* mean |a - b| / 255 of two uniform thumbnails, as the fraction <<num, den>>
mean_abs_diff(a, b) == <<Abs(a - b), 255>>

\* mean SSIM of two uniform thumbnails, as the fraction <<num, den>>: the
\* blurred means are a and b, the variances and the covariance are 0, and
\* C1 = 6.5025 = 2601/400, so ssim = (2ab + C1) / (a^2 + b^2 + C1).
compute_ssim(a, b) == <<800 * a * b + 2601, 400 * (a * a + b * b) + 2601>>

\* <= in place of <
FracBelow_or_equal(frac, thr) == frac[1] * 100 <= thr * frac[2]

\* frac < thr/100 and frac > thr/100
FracBelow(frac, thr) == frac[1] * 100 < thr * frac[2]
\* (frac[1] * 100 > thr * frac[2], with the products kept small)
FracAbove(frac, thr) == (100 - thr) * frac[2] > 100 * (frac[2] - frac[1])

\* `now or time.time()`: an argument of None or 0 is falsy
now_or_time(now_arg, wall) ==
    IF now_arg = NoneArg \/ now_arg[1] = 0 THEN wall ELSE now_arg[1]

SelAccept(sel, gray, now) ==
    [ret |-> TRUE,
     sel |-> [sel EXCEPT !.last_gray = gray, !.last_keyframe_time = now]]

\* a rejection that drops the reference
SelReject_forgets(sel) ==
    [ret |-> FALSE, sel |-> [sel EXCEPT !.last_gray = NoGray, !.last_keyframe_time = 0]]

SelReject(sel) == [ret |-> FALSE, sel |-> sel]

\* check with the forced keyframe tested against min_interval_s
check_forces_at_min(sel, frame_bgr, now_arg, wall) ==
    LET now == now_or_time(now_arg, wall)
        gray == to_gray_thumb(frame_bgr)
        elapsed == now - sel.last_keyframe_time
    IN  IF sel.last_gray = NoGray THEN SelAccept(sel, gray, now)
        ELSE IF elapsed < sel.min_interval_s THEN [ret |-> FALSE, sel |-> sel]
        ELSE IF elapsed >= sel.min_interval_s THEN SelAccept(sel, gray, now)
        ELSE [ret |-> FALSE, sel |-> sel]

check(sel, frame_bgr, now_arg, wall) ==
    LET now == now_or_time(now_arg, wall)
        gray == to_gray_thumb(frame_bgr)
        elapsed == now - sel.last_keyframe_time
    IN  IF sel.last_gray = NoGray THEN SelAccept(sel, gray, now)
        ELSE IF elapsed < sel.min_interval_s THEN SelReject(sel)
        ELSE IF elapsed >= sel.max_interval_s THEN SelAccept(sel, gray, now)
        ELSE IF FracBelow(mean_abs_diff(gray, sel.last_gray), sel.pixel_diff_threshold)
             THEN SelReject(sel)
        ELSE IF FracAbove(compute_ssim(gray, sel.last_gray), sel.ssim_threshold)
             THEN SelReject(sel)
        ELSE SelAccept(sel, gray, now)

selector_reset(sel) == [sel EXCEPT !.last_gray = NoGray, !.last_keyframe_time = 0]

(***************************************************************************)
(* VideoStreamPipeline                                                     *)
(***************************************************************************)
Latencies == {20, 60}

NewStats(now) ==
    [frames_received |-> 0,
     keyframes_detected |-> 0,
     frames_skipped |-> 0,
     avg_processing_ms |-> <<0, 1>>,
     last_keyframe_seq |-> -1,
     session_start |-> now]

NewStream(now) ==
    [seq |-> 0,
     stats |-> NewStats(now),
     buffer |-> <<>>,
     processing_times |-> <<>>,
     stopped |-> FALSE]

NoMeta == [seq |-> 0, timestamp |-> 0, jpeg_size |-> 0, is_keyframe |-> FALSE]

\* a deque built without maxlen: append never evicts
deque_append_unbounded(d, x, maxlen) == Append(d, x)

\* collections.deque(maxlen=...).append
deque_append(d, x, maxlen) ==
    IF Len(d) >= maxlen THEN Append(Tail(d), x) ELSE Append(d, x)

RECURSIVE SumSeq(_)
SumSeq(s) == IF s = <<>> THEN 0 ELSE Head(s) + SumSeq(Tail(s))

\* a counter bumped once more than it should be
next_seq_skip(s) == s + 2

next_seq(s) == s + 1

\* an ingest_jpeg that starts the statistics afresh with each frame
ingest_assign_restarts(st, jpeg_bytes, now) ==
    LET seq == next_seq(st.seq)
    IN  [stream |-> [st EXCEPT !.seq = seq,
                               !.stats = [NewStats(now) EXCEPT !.frames_received = 1]],
         meta |-> [seq |-> seq, timestamp |-> now,
                   jpeg_size |-> jpeg_bytes.size, is_keyframe |-> FALSE]]

\* ingest_jpeg, lines 248-253: sequence number, timestamp, frames_received
ingest_assign(st, jpeg_bytes, now) ==
    LET seq == next_seq(st.seq)
    IN  [stream |-> [st EXCEPT !.seq = seq,
                               !.stats.frames_received = @ + 1],
         meta |-> [seq |-> seq, timestamp |-> now,
                   jpeg_size |-> jpeg_bytes.size, is_keyframe |-> FALSE]]

\* an undecodable frame that is not counted as skipped
decode_failed_uncounted(st, sel, m) == [stream |-> st, selector |-> sel, meta |-> m]

\* an undecodable frame that also drops the selector's reference
decode_failed_forgets(st, sel, m) ==
    [stream |-> [st EXCEPT !.stats.frames_skipped = @ + 1],
     selector |-> selector_reset(sel),
     meta |-> m]

\* ingest_jpeg, lines 258-261: cv2.imdecode returned None
decode_failed(st, sel, m) ==
    [stream |-> [st EXCEPT !.stats.frames_skipped = @ + 1],
     selector |-> sel,
     meta |-> m]

\* ingest_jpeg, lines 256-275: decode, keyframe check, buffer
ingest_select(st, sel, m, jpeg_bytes, maxlen, wall) ==
    LET frame_bgr == imdecode(jpeg_bytes)
    IN  IF frame_bgr = NoImage
        THEN decode_failed(st, sel, m)
        ELSE LET c == check(sel, frame_bgr, <<m.timestamp>>, wall)
             IN  IF c.ret
                 THEN [stream |->
                          [st EXCEPT
                              !.stats.keyframes_detected = @ + 1,
                              !.stats.last_keyframe_seq = m.seq,
                              !.buffer = deque_append(@,
                                  [seq |-> m.seq, ts |-> m.timestamp, img |-> frame_bgr],
                                  maxlen)],
                       selector |-> c.sel,
                       meta |-> [m EXCEPT !.is_keyframe = TRUE]]
                 ELSE [stream |-> [st EXCEPT !.stats.frames_skipped = @ + 1],
                       selector |-> c.sel,
                       meta |-> m]

\* collections.deque.pop: the newest entry instead of the oldest
deque_pop(d) == [item |-> d[Len(d)], rest |-> SubSeq(d, 1, Len(d) - 1)]

\* the oldest entry read but left in the deque
deque_peek(d) == [item |-> Head(d), rest |-> d]

\* collections.deque.popleft
deque_popleft(d) == [item |-> Head(d), rest |-> Tail(d)]

has_pending(st) == Len(st.buffer) > 0
buffer_depth(st) == Len(st.buffer)

\* a failed inference counted as a skipped frame by process_next
process_failure_counts_skipped(st, item) == [st EXCEPT !.stats.frames_skipped = @ + 1]

\* a failed keyframe put back at the head of the buffer
process_failure_requeues(st, item) == [st EXCEPT !.buffer = <<item>> \o @]

\* process_next, lines 290-292: pipeline.run raised; None is returned
process_failure(st, item) == st

\* the average taken over every latency of the session, with no window
process_success_unwindowed(st, item, elapsed_ms) ==
    LET times == Append(st.processing_times, elapsed_ms)
    IN  [stream |-> [st EXCEPT !.processing_times = times,
                               !.stats.avg_processing_ms = <<SumSeq(times), Len(times)>>],
         result |-> [seq |-> item.seq, timestamp |-> item.ts,
                     processing_ms |-> elapsed_ms]]

\* process_next, lines 295-312, after a successful pipeline.run
process_success(st, item, elapsed_ms) ==
    LET times == deque_append(st.processing_times, elapsed_ms, ProcessingWindow)
    IN  [stream |-> [st EXCEPT !.processing_times = times,
                               !.stats.avg_processing_ms = <<SumSeq(times), Len(times)>>],
         result |-> [seq |-> item.seq, timestamp |-> item.ts,
                     processing_ms |-> elapsed_ms]]

\* a reset that lets the sequence counter run on
pipeline_reset_keeps_seq(st, now) ==
    [st EXCEPT !.buffer = <<>>,
               !.processing_times = <<>>,
               !.stats = NewStats(now),
               !.stopped = FALSE]

\* VideoStreamPipeline.reset; StreamStats() takes a new session_start
pipeline_reset(st, now) ==
    [st EXCEPT !.buffer = <<>>,
               !.seq = 0,
               !.processing_times = <<>>,
               !.stats = NewStats(now),
               !.stopped = FALSE]

stats_to_dict(st) ==
    [frames_received |-> st.stats.frames_received,
     keyframes_detected |-> st.stats.keyframes_detected,
     frames_skipped |-> st.stats.frames_skipped,
     avg_processing_ms |-> st.stats.avg_processing_ms]

(***************************************************************************)
(* Messages                                                                *)
(***************************************************************************)
\* The payloads are kept to the fields that identify them: jpeg_size and
\* buffer_depth of an ack, and the counters of a stats or result payload, are
\* left out.
\* an ack whose seq field is filled from buffer_depth
AckMsg_depth_as_seq(m, depth) ==
    [type |-> "ack", seq |-> depth, is_keyframe |-> m.is_keyframe]

AckMsg(m, depth) == [type |-> "ack", seq |-> m.seq, is_keyframe |-> m.is_keyframe]

StatsMsg(st) == [type |-> "stats"]

PongMsg == [type |-> "pong"]

ErrorMsg(detail) == [type |-> "error", detail |-> detail]

ConfiguredMsg(sel) ==
    [type |-> "configured",
     params |-> [ssim_threshold |-> sel.ssim_threshold,
                 pixel_diff_threshold |-> sel.pixel_diff_threshold,
                 min_interval_s |-> sel.min_interval_s,
                 max_interval_s |-> sel.max_interval_s]]

\* _build_result_payload, and the stats _process_loop adds
build_result_payload(result, st) ==
    [type |-> "result", seq |-> result.seq, timestamp |-> result.timestamp,
     processing_ms |-> result.processing_ms]

\* What was sent is recorded per kind of message, each kind in the order sent:
\* acks, results, and the rest (stats, pong, configured, error, close).
NothingSent == [ack |-> <<>>, result |-> <<>>, control |-> <<>>]

Kind(payload) ==
    IF payload.type \in {"ack", "result"} THEN payload.type ELSE "control"

Record(log, payload) == [log EXCEPT ![Kind(payload)] = Append(@, payload)]

RECURSIVE RecordAll(_, _)
RecordAll(log, payloads) ==
    IF payloads = <<>> THEN log
    ELSE RecordAll(Record(log, Head(payloads)), Tail(payloads))

OfType(msgs, t) == SelectSeq(msgs, LAMBDA m : m.type = t)

(***************************************************************************)
(* Control messages: json.loads, float() and the configure command         *)
(***************************************************************************)
JStr(s) == [t |-> "str", s |-> s, n |-> 0]
JNum(n) == [t |-> "num", s |-> "", n |-> n]
JNull == [t |-> "null", s |-> "", n |-> 0]

TxtEmpty == ""
TxtMalformed == "{\"type\": "
TxtArray == "[1]"
TxtNoType == "{}"
TxtUnknown == "{\"type\":\"dance\"}"
TxtPing == "{\"type\":\"ping\"}"
TxtStats == "{\"type\":\"stats\"}"
TxtStop == "{\"type\":\"stop\"}"
TxtCfgMin == "{\"type\":\"configure\",\"min_interval_s\":0}"
TxtCfgBad == "{\"type\":\"configure\",\"ssim_threshold\":\"high\"}"
TxtCfgPartial == "{\"type\":\"configure\",\"ssim_threshold\":0.5,\"max_interval_s\":null}"

Texts == {TxtEmpty, TxtMalformed, TxtArray, TxtNoType, TxtUnknown, TxtPing,
          TxtStats, TxtStop, TxtCfgMin, TxtCfgBad, TxtCfgPartial}

JObject(obj) == [ok |-> TRUE, kind |-> "object", obj |-> obj]
JOther(kind) == [ok |-> TRUE, kind |-> kind, obj |-> <<>>]
JDecodeError == [ok |-> FALSE, kind |-> "JSONDecodeError", obj |-> <<>>]

\* json.loads on the payloads of Texts (numbers in the units of the model)
json_loads(text) ==
    CASE text = TxtArray -> JOther("array")
      [] text = TxtNoType -> JObject(<<>>)
      [] text = TxtUnknown -> JObject([type |-> JStr("dance")])
      [] text = TxtPing -> JObject([type |-> JStr("ping")])
      [] text = TxtStats -> JObject([type |-> JStr("stats")])
      [] text = TxtStop -> JObject([type |-> JStr("stop")])
      [] text = TxtCfgMin ->
            JObject([type |-> JStr("configure"), min_interval_s |-> JNum(0)])
      [] text = TxtCfgBad ->
            JObject([type |-> JStr("configure"), ssim_threshold |-> JStr("high")])
      [] text = TxtCfgPartial ->
            JObject([type |-> JStr("configure"), ssim_threshold |-> JNum(50),
                     max_interval_s |-> JNull])
      [] OTHER -> JDecodeError

dict_get(cmd, key, default) == IF key \in DOMAIN cmd THEN cmd[key] ELSE default

\* float(v): a number converts, a non-numeric string and None raise
py_float(v) ==
    CASE v.t = "num" -> [exc |-> "none", val |-> v.n]
      [] v.t = "str" -> [exc |-> "ValueError", val |-> 0]
      [] OTHER -> [exc |-> "TypeError", val |-> 0]

ConfigFields ==
    <<"ssim_threshold", "pixel_diff_threshold", "min_interval_s", "max_interval_s">>

\* lines 202-209: the fields in order, each assigned as soon as it converts
RECURSIVE configure_from(_, _, _)
configure_from(sel, cmd, i) ==
    IF i > Len(ConfigFields) THEN [exc |-> "none", sel |-> sel]
    ELSE IF ConfigFields[i] \notin DOMAIN cmd THEN configure_from(sel, cmd, i + 1)
    ELSE LET f == py_float(cmd[ConfigFields[i]])
         IN  IF f.exc # "none" THEN [exc |-> f.exc, sel |-> sel]
             ELSE configure_from([sel EXCEPT ![ConfigFields[i]] = f.val], cmd, i + 1)

configure(sel, cmd) == configure_from(sel, cmd, 1)

\* _authenticate_ws: "dev" is the first user if there is one, otherwise the
\* token is decoded
Tokens == {"dev", "valid.jwt", "expired.jwt", ""}

\* the connection URL with no `token` parameter, or with one
QueryArgs == {NoneArg} \cup {<<t>> : t \in Tokens}

\* line 98, `token: str = Query("dev")`: a parameter left out takes the default
DefaultToken == "dev"
Query(arg, default) == IF arg = NoneArg THEN default ELSE arg[1]

authenticate_ws(token, has_user) ==
    IF token = "dev" THEN (IF has_user THEN "user-1" ELSE "None")
    ELSE IF token = "valid.jwt" THEN "user-2" ELSE "None"

(***************************************************************************)
(* The session: video_stream and its two background tasks                  *)
(***************************************************************************)
SendOutcomes == {"ok", "error"}

NoMessage == [type |-> "none", kind |-> "none", bytes |-> EmptyBytes, text |-> ""]
BytesMessage(b) ==
    [type |-> "websocket.receive", kind |-> "bytes", bytes |-> b, text |-> ""]
TextMessage(t) ==
    [type |-> "websocket.receive", kind |-> "text", bytes |-> EmptyBytes, text |-> t]
DisconnectMessage ==
    [type |-> "websocket.disconnect", kind |-> "none", bytes |-> EmptyBytes, text |-> ""]

\* `"bytes" in message and message["bytes"]`, `"text" in message and message["text"]`
has_bytes(m) == m.kind = "bytes" /\ m.bytes.size > 0
has_text(m) == m.kind = "text" /\ m.text # ""

IdleWorker == [st |-> "idle", item |-> <<>>, result |-> <<>>]
SubmittedWorker == [st |-> "submitted", item |-> <<>>, result |-> <<>>]

\* a thread that is not inside ingest_jpeg / process_next
IdleIngest == [pc |-> <<"idle">>, jpeg |-> EmptyBytes, reg |-> 0]
IdleProcess == [pc |-> "idle", item |-> <<>>]

NoCheck ==
    [called |-> FALSE, frame |-> NoImage, now |-> NoneArg, at |-> 0, ret |-> FALSE,
     before |-> NewSelector, after |-> NewSelector]

\* `runs` lists the pipeline.run calls that have ended since the pipeline was
\* built or reset: the seq of the keyframe, whether the call returned (ok) or
\* raised, and the time it took when it returned
\* `keyframes` lists the seq of every frame ingest_jpeg accepted as a keyframe,
\* `evicted` the seq of every keyframe the full buffer dropped on an append
\* the drain() calls made so far, and of the last one: the buffer depth it
\* found, the process_next calls it made and the list it returned
NoDrain == [n |-> 0, depth |-> 0, calls |-> 0, results |-> <<>>]

NewHist ==
    [msgs_in |-> 0, binary_in |-> 0, ingest_calls |-> 0, finals |-> 0, runs |-> <<>>,
     empty_calls |-> 0, resets |-> 0, keyframes |-> <<>>, evicted |-> <<>>,
     drain |-> NoDrain]

\* what an ingest_jpeg call that went from `before` to `after` adds to them
Ingested(h, before, after, m, maxlen) ==
    IF ~m.is_keyframe THEN h
    ELSE [h EXCEPT !.keyframes = Append(@, m.seq),
                   !.evicted = IF Len(before.buffer) >= maxlen
                               THEN Append(@, Head(before.buffer).seq)
                               ELSE @]

RunEnded(item, ok, elapsed_ms) ==
    [seq |-> item.seq, ok |-> ok, ms |-> IF ok THEN elapsed_ms ELSE 0]

Init ==
    /\ pc = "connect"
    /\ client_state = "CONNECTING"
    /\ processing = FALSE
    /\ raised = "none"
    /\ message = NoMessage
    /\ selector = NewSelector
    /\ stream = NewStream(WallEpoch)
    /\ meta = NoMeta
    /\ worker = IdleWorker
    /\ inflight = 0
    /\ process_task = "none"
    /\ send_task = "none"
    /\ result_queue = <<>>
    /\ sent = NothingSent
    /\ clock = WallEpoch
    /\ last_stats_time = 0
    /\ hist = NewHist
    /\ sel_calls = <<>>
    /\ last_check = NoCheck
    /\ query_token = NoneArg
    /\ ingest_th = IdleIngest
    /\ process_th = IdleProcess

Connecting == pc = "connect"
Authenticating == pc = "auth"
Active == pc \in {"recv", "ingest", "ingest_decode", "ack"}
Draining == pc \in {"await_process", "await_send"}
Closed == pc = "closed"

\* a send or close that does not look at ws.client_state
send_json_unguarded(log, state, payload) == Record(log, payload)

\* _send_json
send_json(log, state, payload) ==
    IF state = "CONNECTED" THEN Record(log, payload) ELSE log

\* a shutdown that does not call task.cancel()
cancel_not_called(task) == task

\* task.cancel(): a task that has finished is left as it is
cancel(task) == IF task \in {"done", "cancelled"} THEN task ELSE "cancelling"

\* lines 229-237: the loop is left, by break or by an exception, and the
\* handler runs on to its first await in the finally block
LeaveLoop(exc, state) ==
    /\ raised' = exc
    /\ client_state' = state
    /\ processing' = FALSE
    /\ stream' = [stream EXCEPT !.stopped = TRUE]
    /\ process_task' = cancel(process_task)
    /\ send_task' = cancel(send_task)
    /\ pc' = "await_process"

\* one or two _send_json calls of the message loop, then the next receive
LoopSend(payloads, outcomes) ==
    LET n == Len(payloads)
        failed == {i \in 1..n : outcomes[i] # "ok"}
    IN  IF client_state # "CONNECTED" \/ failed = {}
        THEN /\ sent' = IF client_state = "CONNECTED" THEN RecordAll(sent, payloads) ELSE sent
             /\ pc' = "recv"
             /\ UNCHANGED <<raised, client_state, processing, stream,
                            process_task, send_task>>
        ELSE LET k == CHOOSE i \in failed : \A j \in failed : i <= j
             IN  /\ sent' = RecordAll(sent, SubSeq(payloads, 1, k - 1))
                 /\ LeaveLoop("TransportError", client_state)

(* lines 96-99: the handshake request reaches the endpoint *)
Connect(arg) ==
    /\ pc = "connect"
    /\ query_token' = arg
    /\ pc' = "auth"
    /\ UNCHANGED <<client_state, processing, raised, message, selector, stream, meta,
                   worker, inflight, process_task, send_task, result_queue, sent,
                   clock, last_stats_time, hist, sel_calls, last_check,
                   ingest_th, process_th>>

(* lines 106-153; `token` is not read after line 106 *)
Authenticate(has_user) ==
    /\ pc = "auth"
    /\ query_token' = NoneArg
    /\ IF authenticate_ws(Query(query_token, DefaultToken), has_user) = "None"
       THEN /\ pc' = "closed"
            /\ client_state' = client_state
            /\ sent' = Record(sent, [type |-> "close", code |-> AuthCloseCode])
            /\ UNCHANGED <<processing, selector, stream, process_task, send_task,
                           last_stats_time>>
       ELSE /\ pc' = "recv"
            /\ client_state' = "CONNECTED"
            /\ selector' = NewSelector
            /\ stream' = NewStream(clock)
            /\ processing' = TRUE
            /\ process_task' = "created"
            /\ send_task' = "waiting"
            /\ last_stats_time' = clock
            /\ UNCHANGED sent
    /\ UNCHANGED <<raised, message, meta, worker, inflight, result_queue, clock,
                   hist, sel_calls,
                   last_check,
                   ingest_th, process_th>>

(* time passes while the handler waits for the next inbound message *)
Tick ==
    /\ pc = "recv"
    /\ clock + STATS_INTERVAL <= WallEpoch + MaxTicks * STATS_INTERVAL
    /\ clock' = clock + STATS_INTERVAL
    /\ UNCHANGED <<pc, client_state, processing, raised, message, selector, stream,
                   meta, worker, inflight, process_task, send_task, result_queue,
                   sent, last_stats_time, hist, sel_calls,
                   last_check, query_token,
                   ingest_th, process_th>>

\* a handler that goes back to reading messages after it has closed
CanReceive_when_closed == pc \in {"recv", "closed"}

\* a loop that takes the next message only when no inference is running
CanReceive_when_idle == pc = "recv" /\ inflight = 0

\* a `stop` that does not leave the loop: messages are still received
CanReceive_after_stop == pc \in {"recv", "await_process"}

CanReceive == pc = "recv"

(* line 157-160: the client went away *)
RecvDisconnect ==
    /\ CanReceive
    /\ message' = DisconnectMessage
    /\ LeaveLoop("none", "DISCONNECTED")
    /\ UNCHANGED <<selector, meta, worker, inflight, result_queue, sent, clock,
                   last_stats_time, hist, sel_calls,
                   last_check, query_token,
                   ingest_th, process_th>>

(* line 157: ws.receive() raises *)
RecvError ==
    /\ CanReceive
    /\ LeaveLoop("TransportError", client_state)
    /\ UNCHANGED <<message, selector, meta, worker, inflight, result_queue, sent,
                   clock, last_stats_time, hist, sel_calls,
                   last_check, query_token,
                   ingest_th, process_th>>

(* lines 157-168: a binary message; a non-empty one is handed to ingest_jpeg *)
RecvBinary(jpeg_data) ==
    /\ CanReceive
    /\ hist.binary_in < MaxFrames
    /\ message' = BytesMessage(jpeg_data)
    /\ hist' = [hist EXCEPT !.msgs_in = @ + 1, !.binary_in = @ + 1,
                            !.ingest_calls = IF has_bytes(message') THEN @ + 1 ELSE @]
    /\ pc' = IF has_bytes(message') THEN "ingest" ELSE "recv"
    /\ UNCHANGED <<client_state, processing, raised, selector, stream, meta, worker,
                   inflight, process_task, send_task, result_queue, sent, clock,
                   last_stats_time, sel_calls,
                   last_check, query_token,
                   ingest_th, process_th>>

(* ingest_jpeg in the executor, lines 248-253 *)
IngestAssign ==
    /\ pc = "ingest"
    /\ LET r == ingest_assign(stream, message.bytes, clock)
       IN  /\ stream' = r.stream
           /\ meta' = r.meta
    /\ pc' = "ingest_decode"
    /\ UNCHANGED <<client_state, processing, raised, message, selector, worker,
                   inflight, process_task, send_task, result_queue, sent, clock,
                   last_stats_time, hist, sel_calls,
                   last_check, query_token,
                   ingest_th, process_th>>

(* ingest_jpeg in the executor, lines 256-275 *)
IngestSelect ==
    /\ pc = "ingest_decode"
    /\ LET r == ingest_select(stream, selector, meta, message.bytes, MaxBuffer, clock)
       IN  /\ stream' = r.stream
           /\ selector' = r.selector
           /\ meta' = r.meta
           /\ hist' = Ingested(hist, stream, r.stream, r.meta, MaxBuffer)
    /\ pc' = "ack"
    /\ UNCHANGED <<client_state, processing, raised, message, worker, inflight,
                   process_task, send_task, result_queue, sent, clock,
                   last_stats_time, sel_calls,
                   last_check, query_token,
                   ingest_th, process_th>>

\* the beacon test with > in place of >=
stats_due_strict(now, last) == now - last > STATS_INTERVAL

stats_due(now, last) == now - last >= STATS_INTERVAL

(* lines 170-185: the ack, and the stats beacon when it is due *)
SendAck(o1, o2) ==
    /\ pc = "ack"
    /\ LET due == stats_due(clock, last_stats_time)
           ack == AckMsg(meta, buffer_depth(stream))
       IN  /\ last_stats_time' = IF due /\ (o1 = "ok") THEN clock ELSE last_stats_time
           /\ IF due
              THEN LoopSend(<<ack, StatsMsg(stream)>>, <<o1, o2>>)
              ELSE LoopSend(<<ack>>, <<o1>>)
    /\ UNCHANGED <<message, selector, meta, worker, inflight, result_queue, clock,
                   hist, sel_calls,
                   last_check, query_token,
                   ingest_th, process_th>>

(* lines 188-227: a text message *)
RecvText(text, o) ==
    /\ CanReceive
    /\ hist.msgs_in - hist.binary_in < MaxTexts
    /\ message' = TextMessage(text)
    /\ hist' = [hist EXCEPT !.msgs_in = @ + 1]
    /\ LET parsed == json_loads(text)
           cmd == parsed.obj
           msg_type == dict_get(cmd, "type", JStr(""))
           conf == configure(selector, cmd)
       IN  IF ~has_text(message')
           THEN UNCHANGED <<pc, raised, client_state, processing, stream,
                            process_task, send_task, sent, selector>>
           ELSE IF ~parsed.ok
           THEN LoopSend(<<ErrorMsg("Invalid JSON")>>, <<o>>) /\ UNCHANGED selector
           ELSE IF parsed.kind # "object"
           THEN LeaveLoop("AttributeError", client_state) /\ UNCHANGED <<sent, selector>>
           ELSE IF msg_type = JStr("ping")
           THEN LoopSend(<<PongMsg>>, <<o>>) /\ UNCHANGED selector
           ELSE IF msg_type = JStr("configure")
           THEN /\ selector' = conf.sel
                /\ IF conf.exc # "none"
                   THEN LeaveLoop(conf.exc, client_state) /\ UNCHANGED sent
                   ELSE LoopSend(<<ConfiguredMsg(conf.sel)>>, <<o>>)
           ELSE IF msg_type = JStr("stats")
           THEN LoopSend(<<StatsMsg(stream)>>, <<o>>) /\ UNCHANGED selector
           ELSE IF msg_type = JStr("stop")
           THEN LeaveLoop("none", client_state) /\ UNCHANGED <<sent, selector>>
           ELSE LoopSend(<<ErrorMsg("Unknown command")>>, <<o>>) /\ UNCHANGED selector
    /\ UNCHANGED <<meta, worker, inflight, result_queue, clock, last_stats_time,
                   sel_calls,
                   last_check, query_token,
                   ingest_th, process_th>>

\* run_in_executor without the await: the loop goes on at once
future_not_awaited(w) == TRUE

\* the future of run_in_executor(None, stream.process_next) has a result
future_done(w) == w.st = "returned"

\* a loop that never looks at the buffer
loop_top_never_pending(running, st) ==
    IF ~running THEN [task |-> "done", worker |-> IdleWorker]
    ELSE [task |-> "sleeping", worker |-> IdleWorker]

\* lines 127-135: the loop test and what follows, up to the next await
loop_top(running, st) ==
    IF ~running THEN [task |-> "done", worker |-> IdleWorker]
    ELSE IF has_pending(st) THEN [task |-> "await_exec", worker |-> SubmittedWorker]
    ELSE [task |-> "sleeping", worker |-> IdleWorker]

(* _process_loop starts, or wakes from asyncio.sleep(0.05) *)
ProcessLoopWake ==
    /\ process_task \in {"created", "sleeping"}
    /\ LET t == loop_top(processing, stream)
       IN  /\ process_task' = t.task
           /\ worker' = t.worker
    /\ UNCHANGED <<pc, client_state, processing, raised, message, selector, stream,
                   meta, inflight, send_task, result_queue, sent, clock,
                   last_stats_time, hist, sel_calls,
                   last_check, query_token,
                   ingest_th, process_th>>

(* process_next in the executor, lines 282-289: pop, then pipeline.run starts *)
WorkerStart ==
    /\ worker.st = "submitted"
    /\ IF ~has_pending(stream)
       THEN /\ worker' = [worker EXCEPT !.st = "returned"]
            /\ UNCHANGED <<stream, inflight>>
       ELSE /\ worker' = [worker EXCEPT !.st = "running",
                                        !.item = <<deque_popleft(stream.buffer).item>>]
            /\ stream' = [stream EXCEPT !.buffer = deque_popleft(@).rest]
            /\ inflight' = inflight + 1
    /\ UNCHANGED <<pc, client_state, processing, raised, message, selector, meta,
                   process_task, send_task, result_queue, sent, clock,
                   last_stats_time, hist, sel_calls,
                   last_check, query_token,
                   ingest_th, process_th>>

(* process_next in the executor, lines 289-320: pipeline.run returns or raises *)
WorkerFinish(ok, elapsed_ms) ==
    /\ worker.st = "running"
    /\ inflight' = inflight - 1
    /\ hist' = [hist EXCEPT !.runs = Append(@, RunEnded(worker.item[1], ok, elapsed_ms))]
    /\ IF ok
       THEN LET r == process_success(stream, worker.item[1], elapsed_ms)
            IN  /\ stream' = r.stream
                /\ worker' = [worker EXCEPT !.st = "returned", !.result = <<r.result>>]
       ELSE /\ worker' = [worker EXCEPT !.st = "returned"]
            /\ stream' = process_failure(stream, worker.item[1])
    /\ UNCHANGED <<pc, client_state, processing, raised, message, selector, meta,
                   process_task, send_task, result_queue, sent, clock,
                   last_stats_time, sel_calls,
                   last_check, query_token,
                   ingest_th, process_th>>

(* lines 129-133: the await returns; a result is queued; the loop goes on *)
ProcessLoopResume ==
    /\ process_task = "await_exec"
    /\ future_done(worker)
    /\ result_queue' =
          IF worker.result # <<>>
          THEN Append(result_queue, build_result_payload(worker.result[1], stream))
          ELSE result_queue
    /\ LET t == loop_top(processing, stream)
       IN  /\ process_task' = t.task
           /\ worker' = t.worker
    /\ UNCHANGED <<pc, client_state, processing, raised, message, selector, stream,
                   meta, inflight, send_task, sent, clock, last_stats_time, hist,
                   sel_calls,
                   last_check, query_token,
                   ingest_th, process_th>>

(* lines 139-146: _send_results forwards one payload, or breaks on an error *)
SendResult(o) ==
    /\ send_task = "waiting"
    /\ processing
    /\ result_queue # <<>>
    /\ result_queue' = Tail(result_queue)
    /\ IF client_state # "CONNECTED" \/ o = "ok"
       THEN /\ sent' = send_json(sent, client_state, Head(result_queue))
            /\ UNCHANGED <<send_task, client_state>>
       ELSE /\ send_task' = "done"
            /\ UNCHANGED <<sent, client_state>>
    /\ UNCHANGED <<pc, processing, raised, message, selector, stream, meta, worker,
                   inflight, process_task, clock, last_stats_time, hist, sel_calls,
                   last_check, query_token,
                   ingest_th, process_th>>

(* lines 141-142 under cancellation: up to Python 3.11 asyncio.wait_for hands
   back an item result_queue.get() has already got when the cancellation
   arrives, so _send_results forwards it and then ends at its loop test; from
   Python 3.12 on the cancellation wins (AwaitSendTask) *)
SendResultLate(o) ==
    /\ send_task = "cancelling"
    /\ result_queue # <<>>
    /\ result_queue' = Tail(result_queue)
    /\ sent' = IF o = "ok" THEN send_json(sent, client_state, Head(result_queue))
                ELSE sent
    /\ send_task' = "done"
    /\ UNCHANGED <<pc, client_state, processing, raised, message, selector, stream,
                   meta, worker, inflight, process_task, clock, last_stats_time,
                   hist, sel_calls,
                   last_check, query_token,
                   ingest_th, process_th>>

\* an await that returns while the task is still being cancelled
awaited_unfinished(task) == task

\* the outcome of awaiting a task that was cancelled or has finished
awaited(task) == IF task = "cancelling" THEN "cancelled" ELSE task

(* lines 239-242: CancelledError reaches _process_loop at its await and the
   handler's await of the task returns; a call the executor has not yet
   started may be cancelled with it *)
AwaitProcessTask(drop) ==
    /\ pc = "await_process"
    /\ process_task \in {"cancelling", "cancelled", "done"}
    /\ process_task' = awaited(process_task)
    /\ worker' = IF drop /\ worker.st = "submitted" THEN IdleWorker ELSE worker
    /\ pc' = "await_send"
    /\ UNCHANGED <<client_state, processing, raised, message, selector, stream, meta,
                   inflight, send_task, result_queue, sent, clock, last_stats_time,
                   hist, sel_calls,
                   last_check, query_token,
                   ingest_th, process_th>>

(* lines 243-252: the same for _send_results, then the final stats and the
   close when the client is still connected *)
AwaitSendTask ==
    /\ pc = "await_send"
    /\ send_task \in {"cancelling", "cancelled", "done"}
    /\ send_task' = awaited(send_task)
    /\ hist' = [hist EXCEPT !.finals = @ + 1]
    /\ sent' = send_json(sent, client_state, [type |-> "close", code |-> 1000])
    /\ pc' = "closed"
    /\ UNCHANGED <<client_state, processing, raised, message, selector, stream, meta,
                   worker, inflight, process_task, result_queue, clock,
                   last_stats_time, sel_calls,
                   last_check, query_token,
                   ingest_th, process_th>>

Next ==
    \/ \E arg \in QueryArgs : Connect(arg)
    \/ \E has_user \in BOOLEAN : Authenticate(has_user)
    \/ Tick
    \/ RecvDisconnect
    \/ RecvError
    \/ \E jpeg_data \in JpegInputs : RecvBinary(jpeg_data)
    \/ IngestAssign
    \/ IngestSelect
    \/ \E o1, o2 \in SendOutcomes : SendAck(o1, o2)
    \/ \E text \in Texts, o \in SendOutcomes : RecvText(text, o)
    \/ ProcessLoopWake
    \/ WorkerStart
    \/ \E ok \in BOOLEAN, elapsed_ms \in Latencies : WorkerFinish(ok, elapsed_ms)
    \/ ProcessLoopResume
    \/ \E o \in SendOutcomes : SendResult(o)
    \/ \E o \in SendOutcomes : SendResultLate(o)
    \/ \E drop \in BOOLEAN : AwaitProcessTask(drop)
    \/ AwaitSendTask

Spec == Init /\ [][Next]_vars

\* The event loop runs every coroutine that is ready: once the handler is at
\* `await process_task` or `await send_task` (lines 239-246) and the awaited
\* task has been cancelled or has ended, the handler is resumed.  Nothing is
\* assumed of the client, of the executor or of the inference.
SpecLive ==
    /\ Spec
    /\ WF_vars(\E drop \in BOOLEAN : AwaitProcessTask(drop))
    /\ WF_vars(AwaitSendTask)

\* The two background tasks are scheduled whenever they are ready (the sleep
\* of line 135 ends, the executor future of line 129 and the queue get of
\* line 141 resolve), the executor starts a call handed to it, and every
\* inference call returns or raises.  Nothing is assumed of the client, who
\* sends frames only: a session without text messages.
NextFlow ==
    \/ \E arg \in QueryArgs : Connect(arg)
    \/ \E has_user \in BOOLEAN : Authenticate(has_user)
    \/ Tick
    \/ RecvDisconnect
    \/ RecvError
    \/ \E jpeg_data \in JpegInputs : RecvBinary(jpeg_data)
    \/ IngestAssign
    \/ IngestSelect
    \/ \E o1, o2 \in SendOutcomes : SendAck(o1, o2)
    \/ ProcessLoopWake
    \/ WorkerStart
    \/ \E ok \in BOOLEAN, elapsed_ms \in Latencies : WorkerFinish(ok, elapsed_ms)
    \/ ProcessLoopResume
    \/ \E o \in SendOutcomes : SendResult(o)
    \/ \E o \in SendOutcomes : SendResultLate(o)
    \/ \E drop \in BOOLEAN : AwaitProcessTask(drop)
    \/ AwaitSendTask

SpecFlow ==
    /\ Init /\ [][NextFlow]_vars
    /\ WF_vars(ProcessLoopWake)
    /\ WF_vars(WorkerStart)
    /\ WF_vars(\E ok \in BOOLEAN, elapsed_ms \in Latencies : WorkerFinish(ok, elapsed_ms))
    /\ WF_vars(ProcessLoopResume)
    /\ WF_vars(\E o \in SendOutcomes : SendResult(o))

(***************************************************************************)
(* A KeyframeSelector on its own: check and reset called directly, with    *)
(* the `now` argument given or left out                                    *)
(***************************************************************************)
ScenarioFrames == <<Dark, Dark, Dark, Inverted(Dark)>>
ScenarioNow == <<0, 1, 22, 23>>
ScenarioReturns == <<TRUE, FALSE, TRUE, TRUE>>

NowArgs == {NoneArg} \cup {<<ScenarioNow[i]>> : i \in DOMAIN ScenarioNow}

SelCheck(frame_bgr, now_arg) ==
    /\ Len(sel_calls) < Len(ScenarioFrames)
    /\ LET c == check(selector, frame_bgr, now_arg, clock)
       IN  /\ selector' = c.sel
           /\ sel_calls' = Append(sel_calls,
                  [frame |-> frame_bgr, now |-> now_arg, ret |-> c.ret])
    /\ UNCHANGED <<pc, client_state, processing, raised, message, stream, meta,
                   worker, inflight, process_task, send_task, result_queue, sent,
                   clock, last_stats_time, hist, last_check, query_token,
                   ingest_th, process_th>>

SelReset ==
    /\ sel_calls # <<>>
    /\ selector' = selector_reset(selector)
    /\ sel_calls' = <<>>
    /\ UNCHANGED <<pc, client_state, processing, raised, message, stream, meta,
                   worker, inflight, process_task, send_task, result_queue, sent,
                   clock, last_stats_time, hist, last_check, query_token,
                   ingest_th, process_th>>

NextSel ==
    \/ \E frame_bgr \in SelFrames, now_arg \in NowArgs : SelCheck(frame_bgr, now_arg)
    \/ SelReset

SpecSel == Init /\ [][NextSel]_vars

(***************************************************************************)
(* A KeyframeSelector that is checked, reset and re-tuned in any order:     *)
(* check and reset called directly, the thresholds assigned as the          *)
(* `configure` command of the session assigns them                          *)
(***************************************************************************)
\* `configure` commands, in the units of the model
CfgMinOverMax == [type |-> JStr("configure"), min_interval_s |-> JNum(60)]
CfgMinIsMax ==
    [type |-> JStr("configure"), min_interval_s |-> JNum(22),
     max_interval_s |-> JNum(22)]
CfgExact ==
    [type |-> JStr("configure"), ssim_threshold |-> JNum(100),
     pixel_diff_threshold |-> JNum(0)]
CfgDiffEq ==
    [type |-> JStr("configure"), ssim_threshold |-> JNum(50),
     pixel_diff_threshold |-> JNum(20)]
CfgDefaults ==
    [type |-> JStr("configure"), ssim_threshold |-> JNum(DefaultSsimThreshold),
     pixel_diff_threshold |-> JNum(DefaultPixelDiffThreshold),
     min_interval_s |-> JNum(DefaultMinInterval),
     max_interval_s |-> JNum(DefaultMaxInterval)]
ChkConfigs == {CfgMinOverMax, CfgMinIsMax, CfgExact, CfgDiffEq, CfgDefaults}

ChkFrames == {Dark, Light, Mid, MidPlus, Dim}
ChkNowArgs == NowArgs \cup {<<3>>}

ChkCheck(frame_bgr, now_arg) ==
    /\ LET c == check(selector, frame_bgr, now_arg, clock)
       IN  /\ selector' = c.sel
           /\ last_check' =
                  [called |-> TRUE, frame |-> frame_bgr, now |-> now_arg,
                   at |-> now_or_time(now_arg, clock), ret |-> c.ret,
                   before |-> selector, after |-> c.sel]
    /\ UNCHANGED <<pc, client_state, processing, raised, message, stream, meta,
                   worker, inflight, process_task, send_task, result_queue, sent,
                   clock, last_stats_time, hist, sel_calls, query_token,
                   ingest_th, process_th>>

ChkReset ==
    /\ selector' = selector_reset(selector)
    /\ last_check' = NoCheck
    /\ UNCHANGED <<pc, client_state, processing, raised, message, stream, meta,
                   worker, inflight, process_task, send_task, result_queue, sent,
                   clock, last_stats_time, hist, sel_calls, query_token,
                   ingest_th, process_th>>

(* stream.py lines 200-209 *)
ChkConfigure(cmd) ==
    /\ selector' = configure(selector, cmd).sel
    /\ last_check' = NoCheck
    /\ UNCHANGED <<pc, client_state, processing, raised, message, stream, meta,
                   worker, inflight, process_task, send_task, result_queue, sent,
                   clock, last_stats_time, hist, sel_calls, query_token,
                   ingest_th, process_th>>

NextChk ==
    \/ \E frame_bgr \in ChkFrames, now_arg \in ChkNowArgs : ChkCheck(frame_bgr, now_arg)
    \/ ChkReset
    \/ \E cmd \in ChkConfigs : ChkConfigure(cmd)

SpecChk == Init /\ [][NextChk]_vars

(***************************************************************************)
(* A VideoStreamPipeline on its own: ingest_jpeg, process_next and reset    *)
(* called directly, one after the other, by a caller that feeds a frame     *)
(* when the buffer has room.  Frames arrive DefaultMaxInterval apart, so    *)
(* that each decodable frame is a keyframe, and the n-th pipeline.run call  *)
(* since construction or reset takes RunLatency(n) ms.                      *)
(***************************************************************************)
\* frames ingested since construction or reset, failed pipeline.run calls,
\* process_next calls on an empty buffer, and reset calls
MaxPipeFrames == 53
MaxFailures == 1
MaxEmptyCalls == 1
MaxResets == 1

RunLatency(n) == 20 + n

PipeIngest(jpeg_data) ==
    /\ stream.seq < MaxPipeFrames
    /\ buffer_depth(stream) < MaxBuffer
    /\ clock' = clock + DefaultMaxInterval
    /\ LET a == ingest_assign(stream, jpeg_data, clock')
           r == ingest_select(a.stream, selector, a.meta, jpeg_data, MaxBuffer, clock')
       IN  /\ stream' = r.stream
           /\ selector' = r.selector
           /\ meta' = r.meta
           /\ hist' = Ingested(hist, stream, r.stream, r.meta, MaxBuffer)
    /\ UNCHANGED <<pc, client_state, processing, raised, message, worker, inflight,
                   process_task, send_task, result_queue, sent, last_stats_time,
                   sel_calls, last_check, query_token,
                   ingest_th, process_th>>

(* process_next, lines 282-283: nothing buffered *)
PipeProcessEmpty ==
    /\ ~has_pending(stream)
    /\ hist.empty_calls < MaxEmptyCalls
    /\ hist' = [hist EXCEPT !.empty_calls = @ + 1]
    /\ UNCHANGED <<pc, client_state, processing, raised, message, selector, stream,
                   meta, worker, inflight, process_task, send_task, result_queue,
                   sent, clock, last_stats_time, sel_calls, last_check, query_token,
                   ingest_th, process_th>>

(* process_next, lines 285-320 *)
PipeProcessNext(ok) ==
    /\ has_pending(stream)
    /\ ok \/ Len(SelectSeq(hist.runs, LAMBDA r : ~r.ok)) < MaxFailures
    /\ LET p == deque_popleft(stream.buffer)
           popped == [stream EXCEPT !.buffer = p.rest]
           elapsed_ms == RunLatency(Len(hist.runs) + 1)
       IN  /\ stream' = IF ok THEN process_success(popped, p.item, elapsed_ms).stream
                         ELSE process_failure(popped, p.item)
           /\ hist' = [hist EXCEPT !.runs = Append(@, RunEnded(p.item, ok, elapsed_ms))]
    /\ UNCHANGED <<pc, client_state, processing, raised, message, selector, meta,
                   worker, inflight, process_task, send_task, result_queue, sent,
                   clock, last_stats_time, sel_calls, last_check, query_token,
                   ingest_th, process_th>>

(* reset, lines 339-346 *)
PipeReset ==
    /\ hist.resets < MaxResets
    /\ stream.seq > 0
    /\ stream' = pipeline_reset(stream, clock)
    /\ selector' = selector_reset(selector)
    /\ hist' = [hist EXCEPT !.runs = <<>>, !.keyframes = <<>>, !.evicted = <<>>,
                            !.resets = @ + 1]
    /\ UNCHANGED <<pc, client_state, processing, raised, message, meta, worker,
                   inflight, process_task, send_task, result_queue, sent, clock,
                   last_stats_time, sel_calls, last_check, query_token,
                   ingest_th, process_th>>

NextPipe ==
    \/ \E jpeg_data \in {Jpeg(Dark)} : PipeIngest(jpeg_data)
    \/ PipeProcessEmpty
    \/ \E ok \in BOOLEAN : PipeProcessNext(ok)
    \/ PipeReset

SpecPipe == Init /\ [][NextPipe]_vars

(***************************************************************************)
(* A VideoStreamPipeline given a history and then reset: frames of every    *)
(* kind at varying intervals, overflow of the buffer, failed inferences,    *)
(* selector.configure, stop, and reset at any point.                        *)
(***************************************************************************)
\* seconds (in halves) between two frames
FrameGaps == {1, DefaultMaxInterval}

\* drain calls in one history
MaxDrains == 2

\* the thread's last ingest_jpeg call, returned
Returned(jpeg_data) == [IdleIngest EXCEPT !.jpeg = jpeg_data]

(* ingest_jpeg, lines 241-275 *)
HistIngest(jpeg_data, gap) ==
    /\ stream.seq < MaxFrames
    /\ clock' = clock + gap
    /\ ingest_th' = Returned(jpeg_data)
    /\ LET a == ingest_assign(stream, jpeg_data, clock')
           r == ingest_select(a.stream, selector, a.meta, jpeg_data, MaxBuffer, clock')
       IN  /\ stream' = r.stream
           /\ selector' = r.selector
           /\ meta' = r.meta
           /\ hist' = Ingested(hist, stream, r.stream, r.meta, MaxBuffer)
    /\ UNCHANGED <<pc, client_state, processing, raised, message, worker, inflight,
                   process_task, send_task, result_queue, sent, last_stats_time,
                   sel_calls, last_check, query_token, process_th>>

\* a drain that makes one process_next call, whose inference fails, and returns
drain_until_failure(st, outcomes, acc) ==
    IF ~has_pending(st) THEN [stream |-> st, results |-> acc.results,
                              runs |-> acc.runs, calls |-> acc.calls]
    ELSE LET p == deque_popleft(st.buffer)
             popped == [st EXCEPT !.buffer = p.rest]
         IN  [stream |-> process_failure(popped, p.item), results |-> acc.results,
              runs |-> Append(acc.runs, RunEnded(p.item, FALSE, 0)),
              calls |-> acc.calls + 1]

\* drain, lines 324-329: the loop from its test on, with the results, the
\* runs and the process_next calls so far; outcomes[n] tells whether the
\* n-th pipeline.run of this drain returns
RECURSIVE drain_loop(_, _, _)
drain_loop(st, outcomes, acc) ==
    IF ~has_pending(st) THEN [stream |-> st, results |-> acc.results,
                              runs |-> acc.runs, calls |-> acc.calls]
    ELSE LET p == deque_popleft(st.buffer)
             popped == [st EXCEPT !.buffer = p.rest]
             elapsed_ms == RunLatency(Len(acc.runs) + 1)
             ok == outcomes[acc.calls + 1]
             r == process_success(popped, p.item, elapsed_ms)
         IN  drain_loop(IF ok THEN r.stream ELSE process_failure(popped, p.item),
                        outcomes,
                        [results |-> IF ok THEN Append(acc.results, r.result)
                                     ELSE acc.results,
                         runs |-> Append(acc.runs, RunEnded(p.item, ok, elapsed_ms)),
                         calls |-> acc.calls + 1])

(* drain, lines 322-329 *)
HistDrain(outcomes) ==
    /\ hist.drain.n < MaxDrains
    /\ LET d == drain_loop(stream, outcomes,
                           [results |-> <<>>, runs |-> hist.runs, calls |-> 0])
       IN  /\ stream' = d.stream
           /\ hist' = [hist EXCEPT !.runs = d.runs,
                                   !.drain = [n |-> @.n + 1,
                                              depth |-> buffer_depth(stream),
                                              calls |-> d.calls,
                                              results |-> d.results]]
    /\ UNCHANGED <<pc, client_state, processing, raised, message, selector, meta,
                   worker, inflight, process_task, send_task, result_queue, sent,
                   clock, last_stats_time, sel_calls, last_check, query_token,
                   ingest_th, process_th>>

(* selector.configure, stream.py lines 200-209 *)
HistConfigure(cmd) ==
    /\ selector' = configure(selector, cmd).sel
    /\ UNCHANGED <<pc, client_state, processing, raised, message, stream, meta,
                   worker, inflight, process_task, send_task, result_queue, sent,
                   clock, last_stats_time, hist, sel_calls, last_check, query_token,
                   ingest_th, process_th>>

(* stop, lines 348-349 *)
HistStop ==
    /\ stream' = [stream EXCEPT !.stopped = TRUE]
    /\ UNCHANGED <<pc, client_state, processing, raised, message, selector, meta,
                   worker, inflight, process_task, send_task, result_queue, sent,
                   clock, last_stats_time, hist, sel_calls, last_check, query_token,
                   ingest_th, process_th>>

NextHist ==
    \/ \E jpeg_data \in JpegInputs, gap \in FrameGaps : HistIngest(jpeg_data, gap)
    \/ \E cmd \in ChkConfigs : HistConfigure(cmd)
    \/ HistStop
    \/ PipeProcessEmpty
    \/ \E ok \in BOOLEAN : PipeProcessNext(ok)
    \/ PipeReset

SpecHist == Init /\ [][NextHist]_vars

\* the same pipeline fed frames, processed one keyframe at a time, and drained
NextDrain ==
    \/ \E jpeg_data \in JpegInputs, gap \in FrameGaps : HistIngest(jpeg_data, gap)
    \/ \E ok \in BOOLEAN : PipeProcessNext(ok)
    \/ \E outcomes \in [1..MaxBuffer -> BOOLEAN] : HistDrain(outcomes)

SpecDrain == Init /\ [][NextDrain]_vars

(***************************************************************************)
(* ingest_jpeg and process_next in two threads, as the session runs them:   *)
(* one ingest_jpeg call at a time in one executor thread, one process_next  *)
(* call at a time in another.  Each `x += 1` is a load and a store that the *)
(* other thread may come between; deque.append and deque.popleft are single *)
(* operations.  A frame arrives DefaultMinInterval after the last.          *)
(***************************************************************************)
Field(st, f) == IF f = "seq" THEN st.seq ELSE st.stats[f]

StoreField(st, f, v) ==
    IF f = "seq" THEN [st EXCEPT !.seq = v] ELSE [st EXCEPT !.stats[f] = v]

\* the statement of ingest_jpeg that follows each `+= 1`
AfterStore(f) ==
    CASE f = "seq" -> <<"load", "frames_received">>
      [] f = "frames_received" -> <<"decode">>
      [] f = "keyframes_detected" -> <<"store_last">>
      [] f = "frames_skipped" -> <<"idle">>

(* stream.py line 166: ingest_jpeg is handed to the executor *)
RaceIngestCall(jpeg_data) ==
    /\ ingest_th.pc = <<"idle">>
    /\ hist.ingest_calls < MaxFrames
    /\ clock' = clock + DefaultMinInterval
    /\ hist' = [hist EXCEPT !.ingest_calls = @ + 1]
    /\ ingest_th' = [pc |-> <<"load", "seq">>, jpeg |-> jpeg_data, reg |-> 0]
    /\ UNCHANGED <<pc, client_state, processing, raised, message, selector, stream,
                   meta, worker, inflight, process_task, send_task, result_queue,
                   sent, last_stats_time, sel_calls, last_check, query_token,
                   process_th>>

(* lines 248, 251, 260, 265, 273: the load of `x += 1` *)
RaceLoad ==
    /\ ingest_th.pc[1] = "load"
    /\ ingest_th' = [ingest_th EXCEPT !.reg = Field(stream, ingest_th.pc[2]),
                                      !.pc = <<"store", ingest_th.pc[2]>>]
    /\ UNCHANGED <<pc, client_state, processing, raised, message, selector, stream,
                   meta, worker, inflight, process_task, send_task, result_queue,
                   sent, clock, last_stats_time, hist, sel_calls, last_check,
                   query_token, process_th>>

(* the store of `x += 1`; after `self._seq += 1`, lines 249-253 build the
   FrameMeta, and a counted frame that was not a keyframe returns *)
RaceStore ==
    /\ ingest_th.pc[1] = "store"
    /\ LET f == ingest_th.pc[2]
       IN  /\ stream' = StoreField(stream, f,
                            IF f = "seq" THEN next_seq(ingest_th.reg)
                            ELSE ingest_th.reg + 1)
           /\ meta' = IF f = "seq"
                      THEN [seq |-> next_seq(ingest_th.reg), timestamp |-> clock,
                            jpeg_size |-> ingest_th.jpeg.size, is_keyframe |-> FALSE]
                      ELSE meta
           /\ ingest_th' = IF AfterStore(f) = <<"idle">> THEN IdleIngest
                           ELSE [ingest_th EXCEPT !.pc = AfterStore(f), !.reg = 0]
    /\ UNCHANGED <<pc, client_state, processing, raised, message, selector, worker,
                   inflight, process_task, send_task, result_queue, sent, clock,
                   last_stats_time, hist, sel_calls, last_check, query_token,
                   process_th>>

(* lines 256-264: decode, and selector.check on a decoded frame *)
RaceDecode ==
    /\ ingest_th.pc = <<"decode">>
    /\ LET frame_bgr == imdecode(ingest_th.jpeg)
           c == IF frame_bgr = NoImage THEN SelReject(selector)
                ELSE check(selector, frame_bgr, <<meta.timestamp>>, clock)
       IN  /\ selector' = c.sel
           /\ meta' = [meta EXCEPT !.is_keyframe = c.ret]
           /\ ingest_th' = [ingest_th EXCEPT
                               !.pc = IF c.ret THEN <<"load", "keyframes_detected">>
                                      ELSE <<"load", "frames_skipped">>]
    /\ UNCHANGED <<pc, client_state, processing, raised, message, stream, worker,
                   inflight, process_task, send_task, result_queue, sent, clock,
                   last_stats_time, hist, sel_calls, last_check, query_token,
                   process_th>>

(* line 266 *)
RaceStoreLast ==
    /\ ingest_th.pc = <<"store_last">>
    /\ stream' = [stream EXCEPT !.stats.last_keyframe_seq = meta.seq]
    /\ ingest_th' = [ingest_th EXCEPT !.pc = <<"append">>]
    /\ UNCHANGED <<pc, client_state, processing, raised, message, selector, meta,
                   worker, inflight, process_task, send_task, result_queue, sent,
                   clock, last_stats_time, hist, sel_calls, last_check, query_token,
                   process_th>>

(* lines 269-275: the keyframe is appended and ingest_jpeg returns *)
RaceAppend ==
    /\ ingest_th.pc = <<"append">>
    /\ stream' = [stream EXCEPT
                     !.buffer = deque_append(@,
                         [seq |-> meta.seq, ts |-> meta.timestamp,
                          img |-> imdecode(ingest_th.jpeg)],
                         MaxBuffer)]
    /\ hist' = Ingested(hist, stream, stream', meta, MaxBuffer)
    /\ ingest_th' = IdleIngest
    /\ UNCHANGED <<pc, client_state, processing, raised, message, selector, meta,
                   worker, inflight, process_task, send_task, result_queue, sent,
                   clock, last_stats_time, sel_calls, last_check, query_token,
                   process_th>>

(* stream.py line 129: process_next is handed to the executor *)
RaceProcessCall ==
    /\ process_th.pc = "idle"
    /\ process_th' = [process_th EXCEPT !.pc = "test"]
    /\ UNCHANGED <<pc, client_state, processing, raised, message, selector, stream,
                   meta, worker, inflight, process_task, send_task, result_queue,
                   sent, clock, last_stats_time, hist, sel_calls, last_check,
                   query_token, ingest_th>>

(* lines 282-283 *)
RaceProcessTest ==
    /\ process_th.pc = "test"
    /\ process_th' = IF has_pending(stream) THEN [process_th EXCEPT !.pc = "pop"]
                     ELSE IdleProcess
    /\ UNCHANGED <<pc, client_state, processing, raised, message, selector, stream,
                   meta, worker, inflight, process_task, send_task, result_queue,
                   sent, clock, last_stats_time, hist, sel_calls, last_check,
                   query_token, ingest_th>>

(* line 285 *)
RaceProcessPop ==
    /\ process_th.pc = "pop"
    /\ process_th' = [pc |-> "run", item |-> <<deque_popleft(stream.buffer).item>>]
    /\ stream' = [stream EXCEPT !.buffer = deque_popleft(@).rest]
    /\ UNCHANGED <<pc, client_state, processing, raised, message, selector, meta,
                   worker, inflight, process_task, send_task, result_queue, sent,
                   clock, last_stats_time, hist, sel_calls, last_check, query_token,
                   ingest_th>>

(* lines 287-320: pipeline.run returns or raises, and process_next returns *)
RaceProcessRun(ok, elapsed_ms) ==
    /\ process_th.pc = "run"
    /\ stream' = IF ok THEN process_success(stream, process_th.item[1], elapsed_ms).stream
                 ELSE process_failure(stream, process_th.item[1])
    /\ hist' = [hist EXCEPT
                   !.runs = Append(@, RunEnded(process_th.item[1], ok, elapsed_ms))]
    /\ process_th' = IdleProcess
    /\ UNCHANGED <<pc, client_state, processing, raised, message, selector, meta,
                   worker, inflight, process_task, send_task, result_queue, sent,
                   clock, last_stats_time, sel_calls, last_check, query_token,
                   ingest_th>>

NextRace ==
    \/ \E jpeg_data \in JpegInputs \ {EmptyBytes} : RaceIngestCall(jpeg_data)
    \/ RaceLoad
    \/ RaceStore
    \/ RaceDecode
    \/ RaceStoreLast
    \/ RaceAppend
    \/ RaceProcessCall
    \/ RaceProcessTest
    \/ RaceProcessPop
    \/ \E ok \in BOOLEAN, elapsed_ms \in Latencies : RaceProcessRun(ok, elapsed_ms)

SpecRace == Init /\ [][NextRace]_vars

(***************************************************************************)
(* Properties                                                              *)
(***************************************************************************)
\* C1: the k-th call of ingest_jpeg in a session returns seq k: once the call
\* has taken its sequence number, and when it has returned, its FrameMeta.seq
\* is the number of ingest_jpeg calls made so far, and the pipeline's counter
\* is the number of calls that have taken theirs.
C1_SeqIsCallNumber ==
    /\ pc \in {"ingest_decode", "ack"} =>
          /\ meta.seq = hist.ingest_calls
          /\ stream.seq = hist.ingest_calls
    /\ pc = "ingest" => stream.seq = hist.ingest_calls - 1

\* the third call returns, for an undecodable frame that follows an accepted
\* and a rejected one, while an inference is running
C1_Witness ==
    /\ pc = "ack"
    /\ hist.ingest_calls = 3
    /\ message.bytes = Garbage
    /\ stream.stats.keyframes_detected = 1
    /\ stream.stats.frames_skipped = 2
    /\ inflight = 1

\* C2: while the session is Active and connected, every inbound binary
\* message, a zero-length one included, has been answered by exactly one ack
\* with its sequence number by the time the next message is awaited.
C2_EveryBinaryAcked ==
    (pc = "recv" /\ client_state = "CONNECTED") =>
        /\ Len(sent.ack) = hist.binary_in
        /\ \A i \in 1..Len(sent.ack) : sent.ack[i].seq = i

\* C3: on a fresh selector with the default thresholds, the calls
\* check(gray, 0), check(gray, 0.5), check(gray, 11), check(inverted, 11.5)
\* return accept, reject, accept, accept.
C3_ScenarioReturns ==
    \A n \in 1..Len(sel_calls) :
        (\A i \in 1..n : /\ sel_calls[i].frame = ScenarioFrames[i]
                         /\ sel_calls[i].now = <<ScenarioNow[i]>>)
            => sel_calls[n].ret = ScenarioReturns[n]

\* C4: the buffer never holds more than max_buffer entries; a push onto a
\* full buffer drops exactly the oldest entry and puts the new keyframe last,
\* and a push onto a buffer that is not full drops nothing.
C4_BoundedEvictOldest ==
    [][ /\ Len(stream.buffer) <= MaxBuffer
        /\ Len(stream'.buffer) <= MaxBuffer
        /\ stream'.stats.keyframes_detected # stream.stats.keyframes_detected =>
              LET old == stream.buffer
                  new == stream'.buffer
                  kept == IF Len(old) = MaxBuffer
                          THEN SubSeq(old, 2, Len(old)) ELSE old
              IN  /\ Len(new) = Len(kept) + 1
                  /\ SubSeq(new, 1, Len(kept)) = kept
                  /\ new[Len(new)].seq = meta.seq
                  /\ \A i \in 1..Len(kept) : kept[i].seq < meta.seq ]_vars

\* three keyframes were pushed and none popped: the first one is gone
C4_Witness ==
    /\ stream.stats.keyframes_detected = MaxBuffer + 1
    /\ Len(stream.buffer) = MaxBuffer
    /\ stream.buffer[1].seq = 2
    /\ process_task = "created"
    /\ inflight = 0

\* C5: at most one inference started for the session is executing.
C5_OneInference == inflight <= 1

\* an inference is still executing after the handler has closed the session
\* with a keyframe left in the buffer
C5_Witness ==
    /\ inflight = 1
    /\ pc = "closed"
    /\ has_pending(stream)
    /\ worker.st = "running"

\* C6: the results go out in the order their keyframes were popped:
\* what was sent, then what is queued for sending, then what the executor
\* holds, then what is still buffered, has strictly increasing seq.
C6_ResultsInPopOrder ==
    LET Seqs(items) == [i \in DOMAIN items |-> items[i].seq]
        StrictlyIncreasing(q) == \A i, j \in DOMAIN q : i < j => q[i] < q[j]
        held == IF worker.st = "running" THEN <<worker.item[1].seq>>
                ELSE IF worker.result # <<>> THEN <<worker.result[1].seq>>
                ELSE <<>>
    IN  /\ StrictlyIncreasing(Seqs(sent.result))
        /\ StrictlyIncreasing(Seqs(sent.result) \o Seqs(result_queue)
                              \o held \o Seqs(stream.buffer))

\* two results were sent, for the first and the third frame, the second
\* keyframe having failed inference or been dropped in between
C6_Witness ==
    /\ Len(sent.result) = 2
    /\ sent.result[1].seq = 1
    /\ sent.result[2].seq = 3
    /\ stream.stats.keyframes_detected = 3

\* C7: the acks of a session carry seq 1, 2, 3, ... in that order.
C7_AcksInArrivalOrder ==
    \A i \in 1..Len(sent.ack) : sent.ack[i].seq = i

\* three acks went out, with a result and a stats message in between
C7_Witness ==
    /\ Len(sent.ack) = 3
    /\ sent.result # <<>>
    /\ OfType(sent.control, "stats") # <<>>

\* C8: a text message that is malformed JSON, not a JSON object, or has an
\* unknown or missing type is answered with an error message and the session
\* goes on to await the next message.
C8_BadTextAnswered ==
    (/\ message.kind = "text"
     /\ message.text \in {TxtEmpty, TxtMalformed, TxtArray, TxtNoType, TxtUnknown}
     /\ raised # "TransportError")
        => /\ pc = "recv"
           /\ sent.control # <<>>
           /\ sent.control[Len(sent.control)].type = "error"

\* C9: an accepted session leaves Active only on `stop`, on a disconnect or
\* on a transport error.
C9_LeavesOnlyOnStopOrTransport ==
    (process_task # "none" /\ ~Active) =>
        \/ raised = "TransportError"
        \/ message = DisconnectMessage
        \/ message = TextMessage(TxtStop)

C11_ClosedAfterInference ==
    (pc = "closed" /\ message = TextMessage(TxtStop)) =>
        /\ worker.st \notin {"submitted", "running"}
        /\ worker.st = "returned" => process_task = "done"

\* C11, amended: the session is Closed only after the running flag was
\* cleared and both background tasks were cancelled and awaited; a
\* processing loop with an inference call in flight ends by the cancellation
\* at its await, and the close does not wait for the call to return.
C11_ClosedAfterTasksAwaited ==
    (pc = "closed" /\ process_task # "none") =>
        /\ ~processing
        /\ process_task \in {"cancelled", "done"}
        /\ send_task \in {"cancelled", "done"}
        /\ worker.st = "running" => process_task = "cancelled"

\* `stop` arrived during an inference; the session is Closed, the loop was
\* cancelled, and the inference call is still executing
C11_Witness ==
    /\ pc = "closed"
    /\ message = TextMessage(TxtStop)
    /\ process_task = "cancelled"
    /\ worker.st = "running"
    /\ inflight = 1

\* C12: once the session is Draining or Closed no result message is sent to
\* the client and no result is put on the result queue.
C12_NoResultAfterDraining ==
    [][ (process_task # "none" /\ ~Active) =>
            /\ sent'.result = sent.result
            /\ Len(result_queue') <= Len(result_queue) ]_vars

\* C13: after `stop` was handled nothing more is received or ingested: no
\* seq is assigned, no ingestion counter changes, nothing is pushed onto the
\* buffer and no ack is sent.
C13_NoIngestAfterStop ==
    [][ message = TextMessage(TxtStop) =>
            /\ message' = message
            /\ hist'.ingest_calls = hist.ingest_calls
            /\ stream'.seq = stream.seq
            /\ stream'.stats.frames_received = stream.stats.frames_received
            /\ stream'.stats.keyframes_detected = stream.stats.keyframes_detected
            /\ stream'.stats.frames_skipped = stream.stats.frames_skipped
            /\ stream'.stats.last_keyframe_seq = stream.stats.last_keyframe_seq
            /\ Len(stream'.buffer) <= Len(stream.buffer)
            /\ sent'.ack = sent.ack ]_vars

\* `stop` came after two frames; the session is Closed with both acked and a
\* keyframe left in the buffer
C13_Witness ==
    /\ message = TextMessage(TxtStop)
    /\ pc = "closed"
    /\ hist.binary_in = 2
    /\ Len(sent.ack) = 2
    /\ stream.seq = 2
    /\ has_pending(stream)

\* C14: whatever ends an Active session, the shutdown path runs once: no
\* final stats before the loop is left, and when the session is Closed the
\* flag is cleared, the pipeline stopped, both tasks are cancelled and
\* awaited, the final stats were logged exactly once, and the transport was
\* closed once if it was still connected and not at all otherwise.
C14_ShutdownOnce ==
    LET closes == Len(OfType(sent.control, "close"))
    IN  /\ hist.finals <= 1
        /\ closes <= 1
        /\ (Active \/ Draining) => (hist.finals = 0 /\ closes = 0)
        /\ Draining => (~processing /\ stream.stopped
                        /\ process_task \notin {"created", "sleeping", "await_exec"}
                        /\ send_task # "waiting")
        /\ (Closed /\ process_task # "none") =>
              /\ hist.finals = 1
              /\ ~processing
              /\ stream.stopped
              /\ process_task \in {"cancelled", "done"}
              /\ send_task \in {"cancelled", "done"}
              /\ closes = IF client_state = "CONNECTED" THEN 1 ELSE 0

\* a `configure` with a non-numeric value ended the session: Closed, final
\* stats logged once, transport closed once
C14_Witness ==
    /\ Closed
    /\ raised = "ValueError"
    /\ hist.finals = 1
    /\ Len(OfType(sent.control, "close")) = 1
    /\ client_state = "CONNECTED"

\* C15: a selector that holds a reference accepts every frame checked
\* max_interval_s or more after the reference, and stores the frame and the
\* time, whatever thresholds `configure` has set.
C15_ForcedAfterMaxInterval ==
    (/\ last_check.called
     /\ last_check.before.last_gray # NoGray
     /\ last_check.at - last_check.before.last_keyframe_time
            >= last_check.before.max_interval_s)
        => /\ last_check.ret
           /\ last_check.after.last_gray = to_gray_thumb(last_check.frame)
           /\ last_check.after.last_keyframe_time = last_check.at

C17_FirstCheckAccepted ==
    (last_check.called /\ last_check.before.last_gray = NoGray)
        => /\ last_check.ret
           /\ last_check.after.last_gray = to_gray_thumb(last_check.frame)
           /\ last_check.after.last_keyframe_time
                 = IF last_check.now = NoneArg THEN clock ELSE last_check.now[1]

\* C18: check changes the reference thumbnail and time exactly when it
\* returns true: an accepting call stores the frame's thumbnail and the time
\* of the call, a rejecting call leaves both as they were; the thresholds
\* are never changed.
C18_StateChangesOnlyOnAccept ==
    LET b == last_check.before
        a == last_check.after
    IN  last_check.called =>
           /\ last_check.ret =>
                 /\ a.last_gray = to_gray_thumb(last_check.frame)
                 /\ a.last_keyframe_time = last_check.at
           /\ ~last_check.ret =>
                 /\ a.last_gray = b.last_gray
                 /\ a.last_keyframe_time = b.last_keyframe_time
           /\ a.ssim_threshold = b.ssim_threshold
           /\ a.pixel_diff_threshold = b.pixel_diff_threshold
           /\ a.min_interval_s = b.min_interval_s
           /\ a.max_interval_s = b.max_interval_s

\* a frame that differs enough in pixels but is too similar in structure,
\* checked between the two intervals with the default thresholds: rejected
\* by SSIM, reference unchanged
C18_Witness ==
    LET b == last_check.before
        elapsed == last_check.at - b.last_keyframe_time
    IN  /\ last_check.called
        /\ ~last_check.ret
        /\ b.last_gray # NoGray
        /\ b.ssim_threshold = DefaultSsimThreshold
        /\ b.pixel_diff_threshold = DefaultPixelDiffThreshold
        /\ elapsed >= b.min_interval_s
        /\ elapsed < b.max_interval_s
        /\ Abs(to_gray_thumb(last_check.frame) - b.last_gray) * 100
              >= b.pixel_diff_threshold * 255
        /\ last_check.after = b

\* C19: with a reference stored, the rules apply in the order min interval,
\* max interval, pixel difference, SSIM: below min_interval_s the frame is
\* rejected, otherwise at max_interval_s or more it is accepted, otherwise
\* it is accepted exactly when the mean absolute difference is not below
\* pixel_diff_threshold and the mean SSIM is not above ssim_threshold.
C19_RuleOrder ==
    LET b == last_check.before
        g == to_gray_thumb(last_check.frame)
        elapsed == last_check.at - b.last_keyframe_time
        d == mean_abs_diff(g, b.last_gray)
        q == compute_ssim(g, b.last_gray)
        diff_below == d[1] * 100 < b.pixel_diff_threshold * d[2]
        ssim_above == (100 - b.ssim_threshold) * q[2] > 100 * (q[2] - q[1])
    IN  (last_check.called /\ b.last_gray # NoGray) =>
           IF elapsed < b.min_interval_s THEN ~last_check.ret
           ELSE IF elapsed >= b.max_interval_s THEN last_check.ret
           ELSE last_check.ret <=> (~diff_below /\ ~ssim_above)

\* a difference exactly at pixel_diff_threshold went on to the SSIM test
\* and was rejected there
C19_Witness ==
    LET b == last_check.before
        g == to_gray_thumb(last_check.frame)
        elapsed == last_check.at - b.last_keyframe_time
    IN  /\ last_check.called
        /\ b.last_gray # NoGray
        /\ elapsed >= b.min_interval_s
        /\ elapsed < b.max_interval_s
        /\ Abs(g - b.last_gray) * 100 = b.pixel_diff_threshold * 255
        /\ b.pixel_diff_threshold > 0
        /\ ~last_check.ret

\* C20: while an inference call is executing, the message loop goes on
\* without it: the next message can be received, a frame being ingested
\* takes its seq, is decoded and is acked, and a ping, a stats request and a
\* configure command are answered, whether or not the call ever returns.
C20_LoopNeverWaitsForInference ==
    (worker.st = "running" /\ inflight = 1) =>
        /\ (pc = "recv" /\ hist.binary_in < MaxFrames) =>
              ENABLED RecvBinary(Jpeg(Dark))
        /\ pc = "ingest" => ENABLED IngestAssign
        /\ pc = "ingest_decode" => ENABLED IngestSelect
        /\ pc = "ack" =>
              ENABLED (/\ SendAck("ok", "ok")
                       /\ sent'.ack = Append(sent.ack, AckMsg(meta, buffer_depth(stream))))
        /\ (pc = "recv" /\ hist.msgs_in - hist.binary_in < MaxTexts) =>
              /\ ENABLED (/\ RecvText(TxtPing, "ok")
                          /\ sent'.control = Append(sent.control, PongMsg))
              /\ ENABLED (/\ RecvText(TxtStats, "ok")
                          /\ sent'.control = Append(sent.control, StatsMsg(stream)))
              /\ ENABLED (/\ RecvText(TxtCfgMin, "ok")
                          /\ Len(sent'.control) = Len(sent.control) + 1
                          /\ selector'.min_interval_s = 0)

\* the third frame is about to be acked and a ping was answered while the
\* inference on the first keyframe is still executing
C20_Witness ==
    /\ worker.st = "running"
    /\ inflight = 1
    /\ worker.item[1].seq = 1
    /\ pc = "ack"
    /\ meta.seq = 3
    /\ OfType(sent.control, "pong") # <<>>

\* C21: a connection whose token is invalid or missing is closed with the auth
\* close code by the step that authenticates it, without being accepted: no
\* pipeline is built, no background task is created, no message is read.
C21_BadTokenNeverActive ==
    [][(/\ pc = "auth"
        /\ (query_token = NoneArg \/ query_token[1] \in {"expired.jwt", ""}))
       => /\ pc' = "closed"
          /\ client_state' = "CONNECTING"
          /\ sent' = Record(sent, [type |-> "close", code |-> AuthCloseCode])
          /\ process_task' = "none"
          /\ send_task' = "none"
          /\ stream' = stream
          /\ selector' = selector
          /\ hist' = hist]_vars

\* C22: when pipeline.run raises for a popped keyframe, process_next leaves
\* the buffer, the latency window and avg_processing_ms as they are; the seq
\* of a failed keyframe is never in the buffer again, is never passed to
\* pipeline.run again, and no StreamResult, queued payload or sent result
\* carries it; and when _process_loop resumes after the failure with the
\* session running and a keyframe buffered, it submits process_next again.
C22_FailedKeyframeDropped ==
    [][LET failed == {hist'.runs[i].seq :
                         i \in {j \in DOMAIN hist'.runs : ~hist'.runs[j].ok}}
           raised_now == /\ worker.st = "running"
                         /\ worker'.st = "returned"
                         /\ worker'.result = <<>>
           resumed_after_failure ==
                /\ process_task = "await_exec"
                /\ worker.st = "returned"
                /\ worker.item # <<>>
                /\ worker.result = <<>>
                /\ worker' # worker
       IN  /\ raised_now => stream' = stream
           /\ \A s \in failed :
                 /\ \A i \in DOMAIN stream'.buffer : stream'.buffer[i].seq # s
                 /\ worker'.st = "running" => worker'.item[1].seq # s
                 /\ worker'.result # <<>> => worker'.result[1].seq # s
                 /\ \A i \in DOMAIN result_queue' : result_queue'[i].seq # s
                 /\ \A i \in DOMAIN sent'.result : sent'.result[i].seq # s
           /\ resumed_after_failure =>
                 /\ result_queue' = result_queue
                 /\ (processing /\ has_pending(stream)) =>
                        /\ worker' = SubmittedWorker
                        /\ process_task' = "await_exec"]_vars

\* the inference of the first keyframe raised and the next buffered keyframe
\* is being inferred
C22_Witness ==
    /\ Len(hist.runs) = 1
    /\ ~hist.runs[1].ok
    /\ worker.st = "running"
    /\ worker.item[1].seq > hist.runs[1].seq

\* C23: the latency window holds exactly the latencies of the most recent
\* min(k, 50) successful pipeline.run calls, in order, where k counts the
\* successful calls since construction or reset, and avg_processing_ms is
\* their mean (0 when there is none); failed calls and calls on an empty
\* buffer add nothing.
C23_WindowIsRecentSuccesses ==
    LET good == SelectSeq(hist.runs, LAMBDA r : r.ok)
        k == Len(good)
        n == IF k < ProcessingWindow THEN k ELSE ProcessingWindow
        recent == [i \in 1..n |-> good[k - n + i].ms]
        avg == stream.stats.avg_processing_ms
    IN  /\ stream.processing_times = recent
        /\ avg[2] > 0
        /\ IF n = 0 THEN avg[1] = 0
           ELSE avg[1] * n = SumSeq(recent) * avg[2]

\* more successful inferences than the window holds, with a failed one and an
\* empty-buffer call among the calls
C23_Witness ==
    /\ Len(SelectSeq(hist.runs, LAMBDA r : r.ok)) > ProcessingWindow
    /\ Len(SelectSeq(hist.runs, LAMBDA r : ~r.ok)) > 0
    /\ hist.empty_calls > 0
    /\ hist.resets > 0
    /\ Len(stream.processing_times) = ProcessingWindow

\* C24: an ingest_jpeg call on bytes that cannot be decoded adds one to _seq
\* and frames_received when it takes its sequence number and one to
\* frames_skipped when the decode fails, returns its FrameMeta with
\* is_keyframe false, and changes nothing else: the buffer, the selector
\* (reference thumbnail, time and thresholds), keyframes_detected and
\* last_keyframe_seq are as they were, so later frames meet the state they
\* would have met had the frame only used up a sequence number.
C24_UndecodableFrameOnlyCounted ==
    [][/\ (pc = "ingest" /\ pc' = "ingest_decode" /\ imdecode(message.bytes) = NoImage)
          => /\ stream' = [stream EXCEPT !.seq = @ + 1,
                                         !.stats.frames_received = @ + 1]
             /\ selector' = selector
             /\ ~meta'.is_keyframe
       /\ (pc = "ingest_decode" /\ pc' = "ack" /\ imdecode(message.bytes) = NoImage)
          => /\ stream' = [stream EXCEPT !.stats.frames_skipped = @ + 1]
             /\ selector' = selector
             /\ meta' = meta
             /\ ~meta'.is_keyframe]_vars

\* the second frame of a session could not be decoded; the first one, a
\* keyframe, is still buffered and is still the selector's reference
C24_Witness ==
    /\ pc = "ack"
    /\ message.bytes = Garbage
    /\ meta.seq = 2
    /\ stream.stats.frames_skipped = 1
    /\ stream.stats.last_keyframe_seq = 1
    /\ buffer_depth(stream) = 1
    /\ selector.last_gray # NoGray

\* C25: the step that handles a `configure` message sets each threshold named
\* in the message to the number given for it, leaves the thresholds not named
\* and the selector's reference thumbnail and last_keyframe_time as they
\* were, and (unless the transport fails under the send) sends exactly one
\* message, a `configured` message with the four thresholds now in effect.
C25_ConfigureChangesPresentFields ==
    [][LET parsed == json_loads(message'.text)
           cmd == parsed.obj
       IN  (/\ hist'.msgs_in = hist.msgs_in + 1
            /\ message'.kind = "text"
            /\ parsed.ok
            /\ parsed.kind = "object"
            /\ dict_get(cmd, "type", JStr("")) = JStr("configure"))
           => /\ \A i \in DOMAIN ConfigFields :
                    LET f == ConfigFields[i]
                    IN  IF f \in DOMAIN cmd
                        THEN cmd[f].t = "num" /\ selector'[f] = cmd[f].n
                        ELSE selector'[f] = selector[f]
              /\ selector'.last_gray = selector.last_gray
              /\ selector'.last_keyframe_time = selector.last_keyframe_time
              /\ sent'.ack = sent.ack
              /\ sent'.result = sent.result
              /\ \/ raised' = "TransportError" /\ sent'.control = sent.control
                 \/ sent'.control = Append(sent.control, ConfiguredMsg(selector'))]_vars

\* C26: from one state to the next frames_received, keyframes_detected and
\* frames_skipped never decrease, except in a step that is a call of
\* VideoStreamPipeline.reset(), which sets the three of them to zero.
C26_CountersNeverDecrease ==
    [][LET old == stream.stats
           new == stream'.stats
       IN  \/ /\ new.frames_received >= old.frames_received
              /\ new.keyframes_detected >= old.keyframes_detected
              /\ new.frames_skipped >= old.frames_skipped
           \/ /\ hist'.resets = hist.resets + 1
              /\ new.frames_received = 0
              /\ new.keyframes_detected = 0
              /\ new.frames_skipped = 0]_vars

\* a session that has ended after three frames: two keyframes and a skipped
\* frame, with one inference done
C26_Witness ==
    /\ pc = "closed"
    /\ stream.stats.frames_received = 3
    /\ stream.stats.keyframes_detected = 2
    /\ stream.stats.frames_skipped = 1
    /\ Len(hist.runs) = 1

\* C27: once the message loop has been left (by `stop`, by a client
\* disconnect, or by an error) the handler reaches Closed, with both
\* background tasks cancelled or ended and their cancellation absorbed.
C27_DrainingReachesClosed ==
    Draining ~> (/\ Closed
                 /\ process_task \in {"cancelled", "done"}
                 /\ send_task \in {"cancelled", "done"}
                 /\ ~processing)

\* a session closed after a client disconnect, both tasks cancelled, while an
\* inference is still executing and its keyframe's successor is buffered
C27_Witness ==
    /\ Closed
    /\ message = DisconnectMessage
    /\ process_task = "cancelled"
    /\ send_task = "cancelled"
    /\ client_state = "DISCONNECTED"
    /\ worker.st = "running"

\* C28: a session moves through Connecting, Authenticating, Active, Draining
\* and Closed in that order: every step stays in the lifecycle state it is in
\* or moves to the next one (within Draining, from awaiting the processing
\* task to awaiting the sending task), except that a failed authentication
\* goes from Authenticating to Closed; no step goes back, Active never steps
\* to Closed, and nothing leaves Closed.
C28_LifecycleOrder ==
    [][LET Rank(p) == CASE p = "connect" -> 0
                        [] p = "auth" -> 1
                        [] p \in {"recv", "ingest", "ingest_decode", "ack"} -> 2
                        [] p = "await_process" -> 3
                        [] p = "await_send" -> 4
                        [] p = "closed" -> 5
       IN  /\ \/ Rank(pc') = Rank(pc)
              \/ Rank(pc') = Rank(pc) + 1
              \/ Authenticating /\ pc' = "closed" /\ process_task' = "none"
           /\ Closed => pc' = "closed"
           /\ (Authenticating /\ pc' = "recv") => client_state' = "CONNECTED"]_vars

\* a session that went through every lifecycle state: accepted, three frames
\* ingested, the loop left on a transport error, shut down and closed
C28_Witness ==
    /\ Closed
    /\ raised = "TransportError"
    /\ hist.finals = 1
    /\ stream.seq = 3
    /\ process_task \in {"cancelled", "done"}
    /\ send_task \in {"cancelled", "done"}

\* C29: every seq passed to pipeline.run is the seq of a frame ingest_jpeg
\* accepted as a keyframe, and every ack sent for it says is_keyframe = true;
\* no seq is passed to pipeline.run twice; every result message is for a
\* successful run and no seq has two result messages; and a keyframe the full
\* buffer evicted is never run, never has a result queued or sent, and is no
\* longer buffered, while keyframes_detected still counts it.
C29_InferenceOnlyOnKeyframesOnce ==
    LET Seqs(items) == [i \in DOMAIN items |-> items[i].seq]
        NoRepeat(q) == \A i, j \in DOMAIN q : i # j => q[i] # q[j]
        Range(q) == {q[i] : i \in DOMAIN q}
        started == Seqs(hist.runs) \o
                   (IF worker.st = "running" THEN Seqs(worker.item) ELSE <<>>)
        succeeded == Seqs(SelectSeq(hist.runs, LAMBDA r : r.ok))
        results == Seqs(sent.result) \o Seqs(result_queue)
    IN  /\ Range(started) \subseteq Range(hist.keyframes)
        /\ \A i \in DOMAIN sent.ack :
              sent.ack[i].seq \in Range(started) => sent.ack[i].is_keyframe
        /\ NoRepeat(started)
        /\ NoRepeat(results)
        /\ Range(results) \subseteq Range(succeeded)
        /\ \A e \in Range(hist.evicted) :
              /\ e \notin Range(started)
              /\ e \notin Range(results)
              /\ e \notin Range(Seqs(stream.buffer))
              /\ e \in Range(hist.keyframes)
        /\ stream.stats.keyframes_detected = Len(hist.keyframes)

\* three keyframes were accepted, the first was evicted from the full buffer,
\* and the result of the second has been sent
C29_Witness ==
    /\ hist.evicted = <<1>>
    /\ stream.stats.keyframes_detected = 3
    /\ Len(sent.result) = 1
    /\ sent.result[1].seq = 2
    /\ Len(sent.ack) = 3

\* C30: with ingest_jpeg and process_next running in two threads, statement
\* by statement, only a step of the ingesting thread changes frames_received,
\* keyframes_detected, frames_skipped or last_keyframe_seq, and only a step of
\* the processing thread changes avg_processing_ms; whenever ingest_jpeg has
\* returned, the counters are the numbers of frames ingested, accepted and
\* not accepted so far and last_keyframe_seq is the last accepted seq (no
\* increment is lost); and every keyframe appended is either still buffered,
\* or was popped by process_next, or was evicted by an append to the full
\* buffer, each exactly once (no buffer entry is lost).
C30_SingleWriterNoLostUpdate ==
    [][LET old == stream.stats
           new == stream'.stats
           Seqs(items) == [i \in DOMAIN items |-> items[i].seq]
           Range(q) == {q[i] : i \in DOMAIN q}
           kf == hist'.keyframes
           popped == Seqs(hist'.runs) \o Seqs(process_th'.item)
       IN  /\ (\/ new.frames_received # old.frames_received
               \/ new.keyframes_detected # old.keyframes_detected
               \/ new.frames_skipped # old.frames_skipped
               \/ new.last_keyframe_seq # old.last_keyframe_seq)
              => (ingest_th' # ingest_th /\ process_th' = process_th)
           /\ new.avg_processing_ms # old.avg_processing_ms
              => (process_th' # process_th /\ ingest_th' = ingest_th)
           /\ ingest_th'.pc = <<"idle">> =>
                 /\ stream'.seq = hist'.ingest_calls
                 /\ new.frames_received = hist'.ingest_calls
                 /\ new.keyframes_detected = Len(kf)
                 /\ new.frames_skipped = hist'.ingest_calls - Len(kf)
                 /\ new.last_keyframe_seq = IF kf = <<>> THEN -1 ELSE kf[Len(kf)]
           /\ Range(kf) = Range(Seqs(stream'.buffer)) \cup Range(popped)
                             \cup Range(hist'.evicted)
           /\ Len(kf) = Len(stream'.buffer) + Len(popped) + Len(hist'.evicted)]_vars

\* ingest_jpeg is between the load and the store of `frames_skipped += 1`
\* for the third frame while process_next, which has written
\* avg_processing_ms once, is inside pipeline.run for the second keyframe
C30_Witness ==
    /\ ingest_th.pc = <<"store", "frames_skipped">>
    /\ meta.seq = 3
    /\ process_th.pc = "run"
    /\ Len(hist.runs) = 1
    /\ hist.runs[1].ok
    /\ stream.stats.avg_processing_ms # <<0, 1>>

\* C31 as stated: whenever no ingest_jpeg call is in progress, frames_received
\* is the last seq assigned and is keyframes_detected + frames_skipped, and
\* the acks sent with is_keyframe = true are as many as keyframes_detected.
C31_CountersAndAcksAgree ==
    pc \notin {"ingest", "ingest_decode"} =>
        /\ stream.stats.frames_received = stream.seq
        /\ stream.stats.frames_received =
              stream.stats.keyframes_detected + stream.stats.frames_skipped
        /\ Len(SelectSeq(sent.ack, LAMBDA a : a.is_keyframe)) =
              stream.stats.keyframes_detected

\* C31, amended: whenever no ingest_jpeg call is in progress, frames_received
\* is the last seq assigned and is keyframes_detected + frames_skipped; the
\* acks sent with is_keyframe = true are never more than keyframes_detected,
\* and they are as many, one ack per frame ingested, whenever the handler is
\* waiting for the next message (the ack follows the return of ingest_jpeg,
\* and is not sent when the transport fails under it).
C31_CountersAgreeAcksWhenWaiting ==
    LET acked == Len(SelectSeq(sent.ack, LAMBDA a : a.is_keyframe))
    IN  /\ pc \notin {"ingest", "ingest_decode"} =>
              /\ stream.stats.frames_received = stream.seq
              /\ stream.stats.frames_received =
                    stream.stats.keyframes_detected + stream.stats.frames_skipped
        /\ acked <= stream.stats.keyframes_detected
        /\ pc = "recv" =>
              /\ acked = stream.stats.keyframes_detected
              /\ Len(sent.ack) = stream.stats.frames_received

\* the handler waits for the next message after three frames, two of them
\* keyframes and one skipped, all acked, while an inference is running
C31_Witness ==
    /\ pc = "recv"
    /\ stream.stats.frames_received = 3
    /\ stream.stats.keyframes_detected = 2
    /\ stream.stats.frames_skipped = 1
    /\ Len(sent.ack) = 3
    /\ worker.st = "running"

\* C32: every result message sent to the client carries the seq of a frame
\* whose ack has already been sent.
C32_AckBeforeResult ==
    \A i \in DOMAIN sent.result :
        \E j \in DOMAIN sent.ack : sent.ack[j].seq = sent.result[i].seq

\* C33: once the session has left Active (Draining or Closed), no step pops a
\* keyframe from the buffer or starts an inference call.
C33_NoInferenceStartedAfterActive ==
    [][(Draining \/ Closed) =>
          /\ Len(stream'.buffer) >= Len(stream.buffer)
          /\ ~(worker.st # "running" /\ worker'.st = "running")]_vars

\* C34: while the session stays Active and no send has failed, every keyframe
\* pushed onto the buffer is eventually evicted by overflow, dropped by a
\* failed inference, or reported to the client in a result message, and at
\* every moment it has met at most one of these fates.
C34_EveryKeyframeMeetsOneFate ==
    LET pushed(k) == \E i \in DOMAIN hist.keyframes : hist.keyframes[i] = k
        evicted(k) == \E i \in DOMAIN hist.evicted : hist.evicted[i] = k
        failed(k) == \E i \in DOMAIN hist.runs :
                         hist.runs[i].seq = k /\ ~hist.runs[i].ok
        reported(k) == \E i \in DOMAIN sent.result : sent.result[i].seq = k
        transport_up == client_state = "CONNECTED" /\ send_task # "done"
    IN  \A k \in 1..MaxFrames :
            /\ [](~(evicted(k) /\ failed(k)) /\ ~(evicted(k) /\ reported(k))
                     /\ ~(failed(k) /\ reported(k)))
            /\ pushed(k) ~> (\/ evicted(k) \/ failed(k) \/ reported(k)
                             \/ ~Active \/ ~transport_up)

\* three keyframes on an open session: the first evicted by the third, the
\* second dropped by a failed inference, the third reported to the client
C34_Witness ==
    /\ Active
    /\ client_state = "CONNECTED"
    /\ send_task = "waiting"
    /\ hist.keyframes = <<1, 2, 3>>
    /\ hist.evicted = <<1>>
    /\ \E i \in DOMAIN hist.runs : hist.runs[i].seq = 2 /\ ~hist.runs[i].ok
    /\ \E i \in DOMAIN sent.result : sent.result[i].seq = 3
    /\ stream.buffer = <<>>
    /\ result_queue = <<>>

C36_DrainEmptiesBufferInOrder ==
    [][hist'.drain.n = hist.drain.n + 1 =>
          LET d == hist'.drain
              depth == Len(stream.buffer)
              new == SubSeq(hist'.runs, Len(hist.runs) + 1, Len(hist'.runs))
              good == SelectSeq(new, LAMBDA r : r.ok)
          IN  /\ d.depth = depth
              /\ d.calls = depth
              /\ Len(new) = depth
              /\ \A i \in 1..depth : new[i].seq = stream.buffer[i].seq
              /\ stream'.buffer = <<>>
              /\ Len(d.results) = Len(good)
              /\ \A i \in DOMAIN good :
                     /\ d.results[i].seq = good[i].seq
                     /\ d.results[i].processing_ms = good[i].ms
              /\ \A i, j \in DOMAIN d.results :
                     i < j => d.results[i].seq < d.results[j].seq
              /\ Len(d.results) <= depth]_vars

\* a drain found two keyframes, the older one's inference failed, and it
\* returned the younger one's result alone
C36_Witness ==
    /\ hist.drain.n > 0
    /\ hist.drain.depth = 2
    /\ hist.drain.calls = 2
    /\ Len(hist.drain.results) = 1
    /\ hist.drain.results[1].seq = 3
    /\ hist.evicted = <<1>>
    /\ stream.buffer = <<>>

====
